---- MODULE Spec2Model ----
(***************************************************************************)
(* Model of the apdex crate (src/src/lib.rs): the Apdex accumulator, its   *)
(* constructors, insert, the aggregate queries and the two text            *)
(* renderings.                                                             *)
(*                                                                         *)
(* Numbers.  Thresholds and response times are f64 in the source.  Here a  *)
(* finite time is an integer count of tenths of a second, and NaN is kept  *)
(* as a separate value.  On this grid the source's comparisons are exact:  *)
(* rounding to f64 is monotone and maps different tenths to different      *)
(* doubles, and threshold * 4.0 is a power-of-two scaling, which f64       *)
(* performs without rounding.  A score is the rational                     *)
(* (2*satisfied + tolerating) / (2*total); where the f64 rounding of that  *)
(* quotient decides an output (a two-decimal tie) the rounding direction   *)
(* is computed bit by bit (DivRounding).  Hit rates are k / 2^RateBits,    *)
(* which f64 holds exactly.  u64 counters are modelled with U64Bits bits,  *)
(* since TLC's integers cannot hold 2^64.                                  *)
(***************************************************************************)
EXTENDS Integers, Sequences, FiniteSets, TLC

VARIABLES threshold, satisfied, tolerating, frustrated,
          op, arg, samples, rate, inserts, outcome

vars == <<threshold, satisfied, tolerating, frustrated,
          op, arg, samples, rate, inserts, outcome>>

counters == <<satisfied, tolerating, frustrated>>

----------------------------------------------------------------------------
(* Bounds of the model *)

\* longest sample sequence handed to with_respnse_times / with_hit_rate
MaxLen == 3
\* most insert calls on one accumulator in SpecInsert
MaxInserts == 25
\* most insert calls on one accumulator in SpecRun
MaxRun == 101
\* hit rates are the multiples of 1 / 2^RateBits
RateBits == 3
\* width given to the u64 counters
U64Bits == 16

RateDen == 2 ^ RateBits
U64Modulus == 2 ^ U64Bits
U64_MAX == U64Modulus - 1

----------------------------------------------------------------------------
(* Values *)

\* a finite f64 time, in tenths of a second
F(v) == [nan |-> FALSE, v |-> v]
NaN == [nan |-> TRUE, v |-> 0]

\* Result<f64, ()>
Ok(x) == [ok |-> TRUE, val |-> x]
Err == [ok |-> FALSE, val |-> F(0)]

\* f64 `a <= b`: false when either side is NaN
LeF(a, b) == ~a.nan /\ ~b.nan /\ a.v <= b.v

\* 4.0 and 10.0 seconds (the default and the tests' high threshold)
Thresholds == {40, 100}

\* the samples tried against threshold T: both zone boundaries, their
\* successors, zero, NaN and the error marker
ResponseTimes(T) ==
    {Ok(F(0)), Ok(F(T)), Ok(F(T + 1)), Ok(F(4 * T)), Ok(F(4 * T + 1)), Ok(NaN), Err}

\* a satisfying sample and the error marker, for long runs
RunTimes(T) == {Ok(F(T)), Err}

RECURSIVE SeqsUpTo(_, _)
SeqsUpTo(S, n) ==
    IF n = 0 THEN {<<>>}
    ELSE LET shorter == SeqsUpTo(S, n - 1)
         IN  shorter \cup {Append(s, x) : s \in {q \in shorter : Len(q) = n - 1}, x \in S}

Rate(k) == [num |-> k, den |-> RateDen]
\* assumed hit rates in [0, 1)
ValidRates == {Rate(k) : k \in 0 .. (RateDen - 1)}
\* 1.0 and 1.5
InvalidRates == {Rate(RateDen), Rate(RateDen + RateDen \div 2)}
NoRate == Rate(0)

----------------------------------------------------------------------------
(* The accumulator *)

Apdex(T, s, t, f) ==
    [threshold |-> T, satisfied |-> s, tolerating |-> t, frustrated |-> f]

Self == Apdex(threshold, satisfied, tolerating, frustrated)

new(T) == Apdex(T, 0, 0, 0)

\* u64 `+` in a build without overflow checks
WrappingAdd(x, y) == (x + y) % U64Modulus

\* the zone insert picks for a sample
Classify_Strict(T, response_time) ==
    IF response_time.ok
    THEN IF response_time.val.nan THEN "frustrated"
         ELSE IF response_time.val.v < T THEN "satisfied"
         ELSE IF response_time.val.v < 4 * T THEN "tolerating"
         ELSE "frustrated"
    ELSE "frustrated"

Classify(T, response_time) ==
    IF response_time.ok
    THEN IF LeF(response_time.val, F(T)) THEN "satisfied"
         ELSE IF LeF(response_time.val, F(4 * T)) THEN "tolerating"
         ELSE "frustrated"
    ELSE "frustrated"

insert_DropsErr(a, response_time) ==
    IF ~response_time.ok THEN a
    ELSE LET zone == Classify(a.threshold, response_time)
         IN  [a EXCEPT ![zone] = WrappingAdd(a[zone], 1)]

\* `+= 1` on the chosen counter; it cannot overflow where insert is called,
\* the counters being far below u64::MAX there
insert(a, response_time) ==
    LET zone == Classify(a.threshold, response_time)
    IN  [a EXCEPT ![zone] = WrappingAdd(a[zone], 1)]

total(a) == WrappingAdd(WrappingAdd(a.satisfied, a.tolerating), a.frustrated)

no_samples_NoneSatisfied(a) == a.satisfied = 0

no_samples(a) == total(a) = 0

small_group_UpTo100(a) == total(a) > 0 /\ total(a) <= 100

small_group(a) == total(a) > 0 /\ total(a) < 100

\* Option<f64>: the score as the rational num / den
None == [some |-> FALSE, num |-> 0, den |-> 1]
Some(n, d) == [some |-> TRUE, num |-> n, den |-> d]

score(a) ==
    IF no_samples(a) THEN None
    ELSE Some(2 * a.satisfied + a.tolerating, 2 * total(a))

\* f64 `score >= p / 100` for the literals 0.94, 0.85, 0.70, 0.50
ScoreGe(sc, p) == 100 * sc.num >= p * sc.den
ScoreGt(sc, p) == 100 * sc.num > p * sc.den

rating_word_OpenBands(a) ==
    LET sc == score(a)
    IN  IF sc.some
        THEN IF ScoreGt(sc, 94) THEN "Excellent"
             ELSE IF ScoreGt(sc, 85) THEN "Good"
             ELSE IF ScoreGt(sc, 70) THEN "Fair"
             ELSE IF ScoreGt(sc, 50) THEN "Poor"
             ELSE "Unacceptable"
        ELSE "NoSample"

rating_word(a) ==
    LET sc == score(a)
    IN  IF sc.some
        THEN IF ScoreGe(sc, 94) THEN "Excellent"
             ELSE IF ScoreGe(sc, 85) THEN "Good"
             ELSE IF ScoreGe(sc, 70) THEN "Fair"
             ELSE IF ScoreGe(sc, 50) THEN "Poor"
             ELSE "Unacceptable"
        ELSE "NoSample"

----------------------------------------------------------------------------
(* Bulk constructors *)

\* a fold that gives up at the first Err sample
RECURSIVE FoldUntilErr(_, _)
FoldUntilErr(a, ss) ==
    IF ss = <<>> \/ ~Head(ss).ok THEN a
    ELSE FoldUntilErr(insert(a, Head(ss)), Tail(ss))

with_respnse_times_UntilErr(T, response_times) == FoldUntilErr(new(T), response_times)

RECURSIVE Fold(_, _)
Fold(a, ss) ==
    IF ss = <<>> THEN a ELSE Fold(insert(a, Head(ss)), Tail(ss))

with_respnse_times(T, response_times) == Fold(new(T), response_times)

\* f64 values of the hit computation: a rational, an infinity or NaN
Fin(n, d) == [kind |-> "fin", num |-> n, den |-> d]
Inf == [kind |-> "inf", num |-> 1, den |-> 1]
NaNF == [kind |-> "nan", num |-> 0, den |-> 1]

\* 1.0 - assumed_hit_rate
OneMinus(r) == Fin(r.den - r.num, r.den)

\* misses as f64 / x, for a count misses >= 0
DivF(misses, x) ==
    IF x.num = 0 THEN (IF misses = 0 THEN NaNF ELSE Inf)
    ELSE IF x.num > 0 THEN Fin(misses * x.den, x.num)
    ELSE Fin(-(misses * x.den), -x.num)

\* x - misses as f64
SubF(x, misses) ==
    IF x.kind = "fin" THEN Fin(x.num - misses * x.den, x.den) ELSE x

FloorF(x) ==
    IF x.kind = "fin" THEN Fin(x.num \div x.den, 1) ELSE x

\* f64::ceil
CeilF(x) ==
    IF x.kind = "fin" THEN Fin(-((-x.num) \div x.den), 1) ELSE x

\* `as u64`: saturating, NaN to 0
AsU64(x) ==
    IF x.kind = "nan" THEN 0
    ELSE IF x.kind = "inf" THEN U64_MAX
    ELSE LET n == x.num \div x.den
         IN  IF n < 0 THEN 0 ELSE IF n > U64_MAX THEN U64_MAX ELSE n

HitsF_Floor(misses, r) == FloorF(SubF(DivF(misses, OneMinus(r)), misses))

\* the reconstructed total traffic instead of the hits alone
HitsF_TotalTraffic(misses, r) == CeilF(DivF(misses, OneMinus(r)))

\* (misses as f64 / (1.0 - assumed_hit_rate) - misses as f64).ceil()
HitsF(misses, r) == CeilF(SubF(DivF(misses, OneMinus(r)), misses))

\* The result of with_hit_rate.  `satisfied += hits` overflows when the sum
\* passes u64::MAX: with overflow checks the call panics, without them the
\* sum wraps.  On a panic no accumulator is returned; `apdex` is then the
\* local as it stood at the panic.
with_hit_rate(T, assumed_hit_rate, response_times, overflow_checks) ==
    LET apdex == with_respnse_times(T, response_times)
        misses == total(apdex)
        hits == AsU64(HitsF(misses, assumed_hit_rate))
    IN  IF overflow_checks /\ apdex.satisfied + hits > U64_MAX
        THEN [apdex |-> apdex, outcome |-> "panic"]
        ELSE [apdex |-> [apdex EXCEPT !.satisfied = WrappingAdd(apdex.satisfied, hits)],
              outcome |-> "ok"]

----------------------------------------------------------------------------
(* Text rendering: a string is the sequence of its characters *)

DigitChars == <<"0", "1", "2", "3", "4", "5", "6", "7", "8", "9">>
Digit(d) == DigitChars[d + 1]

RECURSIVE Decimal(_)
Decimal(n) ==
    IF n < 10 THEN <<Digit(n)>> ELSE Append(Decimal(n \div 10), Digit(n % 10))

\* mantissa bits of an f64 after the leading one
F64FractionBits == 52

RECURSIVE Normalise(_, _)
Normalise(n, d) == IF n >= d THEN n ELSE Normalise(2 * n, d)

RECURSIVE Mantissa(_, _, _, _)
Mantissa(r, d, k, last) ==
    IF k = 0 THEN <<r, last>>
    ELSE IF 2 * r >= d THEN Mantissa(2 * r - d, d, k - 1, 1)
    ELSE Mantissa(2 * r, d, k - 1, 0)

\* how the f64 quotient n / d (0 < n <= d) lies to the exact one:
\* round to nearest, ties to even
DivRounding(n, d) ==
    LET m == Mantissa(Normalise(n, d) - d, d, F64FractionBits, 1)
        r == m[1]
    IN  IF r = 0 THEN "exact"
        ELSE IF 2 * r > d THEN "up"
        ELSE IF 2 * r < d THEN "down"
        ELSE IF m[2] = 1 THEN "up" ELSE "down"

\* the score in hundredths as "{:.2}" prints it: the f64's exact decimal
\* expansion rounded to nearest, an exact half to the even digit
Hundredths(sc) ==
    LET h == (100 * sc.num) \div sc.den
        rem == 100 * sc.num - h * sc.den
    IN  IF 2 * rem < sc.den THEN h
        ELSE IF 2 * rem > sc.den THEN h + 1
        ELSE LET dir == DivRounding(sc.num, sc.den)
             IN  IF dir = "up" THEN h + 1
                 ELSE IF dir = "down" THEN h
                 ELSE IF h % 2 = 0 THEN h ELSE h + 1

\* "{:.2}"
Format2(sc) ==
    LET h == Hundredths(sc)
    IN  Decimal(h \div 100) \o <<".", Digit((h \div 10) % 10), Digit(h % 10)>>

\* "{:.1}" of a threshold in tenths
Format1(T) == Decimal(T \div 10) \o <<".", Digit(T % 10)>>

\* "{:.0}" of a threshold in tenths; x.5 is exact in f64 and goes to even
Format0(T) ==
    LET w == T \div 10
        r == T % 10
    IN  Decimal(IF r < 5 THEN w
                ELSE IF r > 5 THEN w + 1
                ELSE IF w % 2 = 0 THEN w ELSE w + 1)

WordChars(w) ==
    CASE w = "Excellent" -> <<"E", "x", "c", "e", "l", "l", "e", "n", "t">>
      [] w = "Good" -> <<"G", "o", "o", "d">>
      [] w = "Fair" -> <<"F", "a", "i", "r">>
      [] w = "Poor" -> <<"P", "o", "o", "r">>
      [] w = "Unacceptable" -> <<"U", "n", "a", "c", "c", "e", "p", "t", "a", "b", "l", "e">>
      [] w = "NoSample" -> <<"N", "o", "S", "a", "m", "p", "l", "e">>

write_threshold(a) ==
    LET low_sample_indicator == IF small_group(a) THEN <<"*">> ELSE <<>>
    IN  IF a.threshold < 100
        THEN <<" ", "[">> \o Format1(a.threshold) \o <<"]">> \o low_sample_indicator
        ELSE <<" ", "[">> \o Format0(a.threshold) \o <<"]">> \o low_sample_indicator

Display_NoneAsZero(a) ==
    LET sc == score(a)
    IN  (IF sc.some THEN Format2(sc) ELSE <<"0", ".", "0", "0">>) \o write_threshold(a)

\* impl fmt::Display for Apdex
Display(a) ==
    LET sc == score(a)
    IN  (IF sc.some THEN Format2(sc) ELSE <<"N", "S">>) \o write_threshold(a)

\* impl fmt::Display for ApdexRating
DisplayRating(a) == WordChars(rating_word(a)) \o write_threshold(a)

----------------------------------------------------------------------------
(* State machine: one accumulator and the last call made on or for it *)

NoArg == Err

Becomes(a) ==
    /\ threshold' = a.threshold
    /\ satisfied' = a.satisfied
    /\ tolerating' = a.tolerating
    /\ frustrated' = a.frustrated

Init ==
    /\ threshold \in Thresholds
    /\ satisfied = 0
    /\ tolerating = 0
    /\ frustrated = 0
    /\ op = "new"
    /\ arg = NoArg
    /\ samples = <<>>
    /\ rate = NoRate
    /\ inserts = 0
    /\ outcome = "ok"

\* Apdex::insert
Insert(response_time) ==
    /\ outcome = "ok"
    /\ Becomes(insert(Self, response_time))
    /\ op' = "insert"
    /\ arg' = response_time
    /\ samples' = <<>>
    /\ rate' = NoRate
    /\ inserts' = inserts + 1
    /\ UNCHANGED outcome

\* the &self queries: total, no_samples, small_group, score, rating_word,
\* score_rating and both Display impls
Query ==
    /\ outcome = "ok"
    /\ op # "query"
    /\ op' = "query"
    /\ UNCHANGED <<threshold, satisfied, tolerating, frustrated,
                   arg, samples, rate, inserts, outcome>>

\* Apdex::with_respnse_times
WithRespnseTimes(T, response_times) ==
    /\ outcome = "ok"
    /\ Becomes(with_respnse_times(T, response_times))
    /\ op' = "with_respnse_times"
    /\ arg' = NoArg
    /\ samples' = response_times
    /\ rate' = NoRate
    /\ inserts' = Len(response_times)
    /\ UNCHANGED outcome

\* Apdex::with_hit_rate, in a build with or without overflow checks
WithHitRate(T, assumed_hit_rate, response_times) ==
    /\ outcome = "ok"
    /\ \E overflow_checks \in BOOLEAN :
          LET res == with_hit_rate(T, assumed_hit_rate, response_times, overflow_checks)
          IN  /\ Becomes(res.apdex)
              /\ outcome' = res.outcome
    /\ op' = "with_hit_rate"
    /\ arg' = NoArg
    /\ samples' = response_times
    /\ rate' = assumed_hit_rate
    /\ inserts' = Len(response_times)

\* The public API with hit rates within [0, 1): an accumulator is built by
\* new (Init), with_respnse_times or with_hit_rate, and then inserted into.
\* A bulk constructor call is taken from the state a plain new would give,
\* with the same threshold.
Next ==
    \/ \E rt \in ResponseTimes(threshold) : inserts < MaxLen + 1 /\ Insert(rt)
    \/ /\ op = "new"
       /\ \E ss \in SeqsUpTo(ResponseTimes(threshold), MaxLen) :
             WithRespnseTimes(threshold, ss)
    \/ /\ op = "new"
       /\ \E ss \in SeqsUpTo(ResponseTimes(threshold), MaxLen) :
             \E r \in ValidRates : WithHitRate(threshold, r, ss)

Spec == Init /\ [][Next]_vars

\* new, then inserts and queries
NextInsert ==
    \/ \E rt \in ResponseTimes(threshold) : inserts < MaxInserts /\ Insert(rt)
    \/ Query

SpecInsert == Init /\ [][NextInsert]_vars

\* new, then a long run of inserts
NextRun == \E rt \in RunTimes(threshold) : inserts < MaxRun /\ Insert(rt)

SpecRun == Init /\ [][NextRun]_vars

\* with_hit_rate with any hit rate, 1.0 and above included
NextAnyRate ==
    /\ op = "new"
    /\ \E ss \in SeqsUpTo(ResponseTimes(threshold), MaxLen) :
          \E r \in ValidRates \cup InvalidRates : WithHitRate(threshold, r, ss)

SpecAnyRate == Init /\ [][NextAnyRate]_vars

----------------------------------------------------------------------------
(* Claims *)

Sum == satisfied + tolerating + frustrated

\* exactly one counter grew, by exactly 1
OneCounterUp ==
    \/ satisfied' = satisfied + 1 /\ tolerating' = tolerating /\ frustrated' = frustrated
    \/ satisfied' = satisfied /\ tolerating' = tolerating + 1 /\ frustrated' = frustrated
    \/ satisfied' = satisfied /\ tolerating' = tolerating /\ frustrated' = frustrated + 1

\* C1: from new, every insert call raises exactly one of the three counters
\* by 1 and leaves the other two and the threshold alone, so after n insert
\* calls total() = satisfied + tolerating + frustrated = n.
C1_EveryInsertCounted ==
    /\ [](total(Self) = Sum /\ Sum = inserts)
    /\ [][inserts' = inserts + 1 => (OneCounterUp /\ threshold' = threshold)]_vars

C1_Witness ==
    /\ op = "insert"
    /\ inserts = 3
    /\ satisfied = 1 /\ tolerating = 1 /\ frustrated = 1
    /\ ~arg.ok

\* C2: with threshold T > 0, insert(Ok(t)) counts t <= T as satisfied,
\* T < t <= 4T as tolerating and t > 4T as frustrated; insert(Err) counts as
\* frustrated, giving the counters an insert of a time above 4T gives.
C2_ZoneBoundaries ==
    [][op' = "insert" =>
        LET t == arg'.val
            T == threshold
        IN  /\ T > 0
            /\ (arg'.ok /\ ~t.nan /\ t.v <= T) =>
                  (satisfied' = satisfied + 1 /\ UNCHANGED <<tolerating, frustrated>>)
            /\ (arg'.ok /\ ~t.nan /\ T < t.v /\ t.v <= 4 * T) =>
                  (tolerating' = tolerating + 1 /\ UNCHANGED <<satisfied, frustrated>>)
            /\ (arg'.ok /\ ~t.nan /\ t.v > 4 * T) =>
                  (frustrated' = frustrated + 1 /\ UNCHANGED <<satisfied, tolerating>>)
            /\ ~arg'.ok =>
                  /\ frustrated' = frustrated + 1
                  /\ UNCHANGED <<satisfied, tolerating>>
                  /\ Self' = insert(Self, Ok(F(4 * T + 1)))]_vars

C2_Witness ==
    /\ op = "insert"
    /\ inserts = 2
    /\ arg = Ok(F(4 * threshold))
    /\ satisfied = 1 /\ tolerating = 1 /\ frustrated = 0

\* C3: after new, insert and the hit-rate adjustment, score() is None
\* exactly when there are no samples; otherwise it is
\* (satisfied + tolerating/2) / total and lies in [0, 1].
C3_ScoreDefinedInUnitRange ==
    LET sc == score(Self)
    IN  /\ sc.some <=> Sum # 0
        /\ sc.some =>
              /\ sc.den > 0
              /\ sc.num * (2 * Sum) = (2 * satisfied + tolerating) * sc.den
              /\ 0 <= sc.num /\ sc.num <= sc.den

C3_Witness ==
    /\ op = "with_hit_rate"
    /\ rate.num > 0
    /\ satisfied > Len(samples)
    /\ tolerating = 1 /\ frustrated = 1
    /\ score(Self).some
    /\ score(Self).num < score(Self).den

\* every reordering of the sequence ss
Reorderings(ss) ==
    LET n == Len(ss)
        bij == {f \in [1 .. n -> 1 .. n] : \A i, j \in 1 .. n : f[i] = f[j] => i = j}
    IN  {[i \in 1 .. n |-> ss[f[i]]] : f \in bij}

\* C4: with_respnse_times gives the same three counters, score and rating
\* for a sample sequence and for every permutation of it.
C4_OrderIndependent ==
    op = "with_respnse_times" =>
        \A p \in Reorderings(samples) :
            LET other == with_respnse_times(threshold, p)
            IN  /\ other.satisfied = satisfied
                /\ other.tolerating = tolerating
                /\ other.frustrated = frustrated
                /\ score(other) = score(Self)
                /\ rating_word(other) = rating_word(Self)

C4_Witness ==
    /\ op = "with_respnse_times"
    /\ Len(samples) = 3
    /\ ~samples[1].ok /\ samples[2].ok /\ samples[3].ok
    /\ satisfied = 1 /\ tolerating = 1 /\ frustrated = 1

\* the least whole number h with h >= m * r / (1 - r), i.e.
\* ceil(m / (1 - r) - m), for r = num/den in [0, 1)
CeilOfHits(m, r) ==
    CHOOSE h \in 0 .. (m * r.den) :
        /\ h * (r.den - r.num) >= m * r.num
        /\ (h - 1) * (r.den - r.num) < m * r.num

\* C5: for a hit rate r in [0, 1), with_hit_rate gives the counters of
\* with_respnse_times on the same samples with satisfied raised by
\* ceil(misses/(1-r) - misses), misses being the unadjusted total;
\* tolerating and frustrated are the unadjusted ones.
C5_HitRateAddsCeiling ==
    (op = "with_hit_rate" /\ rate.num < rate.den) =>
        LET base == with_respnse_times(threshold, samples)
            misses == base.satisfied + base.tolerating + base.frustrated
        IN  /\ outcome = "ok"
            /\ satisfied = base.satisfied + CeilOfHits(misses, rate)
            /\ tolerating = base.tolerating
            /\ frustrated = base.frustrated

C5_Witness ==
    /\ op = "with_hit_rate"
    /\ rate.num = 1
    /\ Len(samples) = 3
    /\ tolerating = 1 /\ frustrated = 1
    /\ satisfied = 2

\* the samples given to with_hit_rate, counted, and what it added to satisfied
Misses == Len(samples)
Hits == satisfied - with_respnse_times(threshold, samples).satisfied

\* C6 as stated: after with_hit_rate with r in [0, 1) on a non-empty sample
\* set, misses / (misses + hits) = 1 - r exactly.
C6_ExactShare ==
    (op = "with_hit_rate" /\ rate.num < rate.den /\ samples # <<>>) =>
        Misses * rate.den = (rate.den - rate.num) * (Misses + Hits)

\* C6 amended: misses / (misses + hits) <= 1 - r, hits is the least whole
\* number for which that holds, and the share is exactly 1 - r only when
\* misses * r / (1 - r) is a whole number (hit rates and counts on which the
\* f64 arithmetic of with_hit_rate is exact).
C6_LeastCover ==
    (op = "with_hit_rate" /\ rate.num < rate.den /\ samples # <<>>) =>
        LET d == rate.den - rate.num
        IN  /\ Hits >= 0
            /\ Misses * rate.den <= d * (Misses + Hits)
            /\ Hits > 0 => Misses * rate.den > d * (Misses + Hits - 1)
            /\ Misses * rate.den = d * (Misses + Hits) <=> (Misses * rate.num) % d = 0

C6_Witness ==
    /\ op = "with_hit_rate"
    /\ Len(samples) = 2
    /\ rate.num = 3
    /\ Hits = 2
    /\ Misses * rate.den < (rate.den - rate.num) * (Misses + Hits)

\* C7: a with_hit_rate call with a hit rate >= 1.0 is rejected, and no
\* accumulator is returned whose satisfied counter comes from a division by
\* zero or an infinite hit count.
C7_RejectedAtBoundary ==
    op = "with_hit_rate" =>
        /\ rate.num >= rate.den => outcome # "ok"
        /\ outcome = "ok" => HitsF(Misses, rate).kind = "fin"

\* C8: with at least one sample, rating_word() is the first band, from the
\* top, that the score reaches: >= 0.94 Excellent, >= 0.85 Good,
\* >= 0.70 Fair, >= 0.50 Poor, else Unacceptable; never NoSample.
C8_RatingBands ==
    Sum > 0 =>
        LET w == rating_word(Self)
            p == 100 * (2 * satisfied + tolerating)
            q == 2 * Sum
        IN  /\ w \in {"Excellent", "Good", "Fair", "Poor", "Unacceptable"}
            /\ w = "Excellent" <=> p >= 94 * q
            /\ w = "Good" <=> (p < 94 * q /\ p >= 85 * q)
            /\ w = "Fair" <=> (p < 85 * q /\ p >= 70 * q)
            /\ w = "Poor" <=> (p < 70 * q /\ p >= 50 * q)
            /\ w = "Unacceptable" <=> p < 50 * q

C8_Witness ==
    /\ satisfied = 23 /\ tolerating = 1 /\ frustrated = 1
    /\ rating_word(Self) = "Excellent"
    /\ op = "query"

EndsWithStar(text) == text[Len(text)] = "*"

IsDigit(c) == \E d \in 0 .. 9 : c = Digit(d)

\* the text opens with a two-decimal number: d.dd
OpensWithScore(text) ==
    /\ Len(text) >= 4
    /\ IsDigit(text[1]) /\ text[2] = "." /\ IsDigit(text[3]) /\ IsDigit(text[4])

OpensWithNS(text) == Len(text) >= 2 /\ text[1] = "N" /\ text[2] = "S"

\* C10: no samples is a value of every query, and the queries agree on it:
\* total() = 0 iff score() is None iff rating_word() is "NoSample" iff the
\* Display text opens with "NS" in place of a two-decimal score; a query
\* changes no counter.
C10_NoSampleIsAValue ==
    /\ [](/\ total(Self) = 0 <=> Sum = 0
          /\ Sum = 0 <=> ~score(Self).some
          /\ Sum = 0 <=> rating_word(Self) = "NoSample"
          /\ Sum = 0 <=> OpensWithNS(Display(Self))
          /\ Sum # 0 <=> OpensWithScore(Display(Self)))
    /\ [][op' = "query" => UNCHANGED <<threshold, satisfied, tolerating, frustrated>>]_vars

C10_Witness ==
    /\ op = "query"
    /\ Sum = 0
    /\ threshold = 40
    /\ Display(Self) = <<"N", "S", " ", "[", "4", ".", "0", "]">>
    /\ DisplayRating(Self) = WordChars("NoSample") \o <<" ", "[", "4", ".", "0", "]">>

====
